---- MODULE Spec2Model ----
(***************************************************************************)
(* Model of e3nn_jax/experimental/transformer.py (the uvu instruction      *)
(* generator and the graph-attention Transformer layer) and of the two     *)
(* Tetris example scripts.                                                 *)
(*                                                                         *)
(* An irrep is a record [l, p] (degree, parity: 1 even, -1 odd); a block   *)
(* is a record [mul, ir]; an Irreps is a sequence of blocks.  Indices      *)
(* stored in instructions are 0-based, as in the Python source.            *)
(***************************************************************************)
EXTENDS Integers, Sequences, FiniteSets, TLC

VARIABLES
    \* a call of _instructions_uvu: its arguments and what it returned
    irreps_in1, irreps_in2, ir_out_list, uvu_ret,
    \* a Transformer: the constructor's arguments, the module built, the graph
    \* given to __call__ and what __call__ computed
    ctor_args, self, graph, call_ret,
    \* main() of the voxel example: where it stands and what it holds
    voxel,
    \* train() of the point-cloud example: where it stands and what it holds
    point

uvu_vars == <<irreps_in1, irreps_in2, ir_out_list, uvu_ret>>

tr_vars == <<ctor_args, self, graph, call_ret>>

vars == <<irreps_in1, irreps_in2, ir_out_list, uvu_ret, ctor_args, self, graph, call_ret,
          voxel, point>>

(***************************************************************************)
(* Bounds of the model.                                                    *)
(***************************************************************************)
\* largest number of blocks of irreps_in1 given to _instructions_uvu
MaxBlocks == 2
\* largest num_heads given to Transformer
MaxHeads == 2
\* largest number of nodes and of edges of the graph given to Transformer.__call__
MaxNodes == 2
MaxEdges == 2

(***************************************************************************)
(* Irreps algebra (library code, not among the sources).                   *)
(***************************************************************************)
Parities == {-1, 1}

Irrep(l, p) == [l |-> l, p |-> p]

Block(mul, ir) == [mul |-> mul, ir |-> ir]

\* degrees of the irreps the inputs are drawn from
Degrees == {0, 1}

Irs == {Irrep(l, p) : l \in Degrees, p \in Parities}

Abs(x) == IF x < 0 THEN -x ELSE x

\* Irrep.dim
IrDim(ir) == 2 * ir.l + 1

\* ir_in1 * ir_in2: the irreps of the product in the order the library yields them
IrMul(a, b) ==
    [j \in 1..(2 * (IF a.l < b.l THEN a.l ELSE b.l) + 1) |->
        Irrep(Abs(a.l - b.l) + j - 1, a.p * b.p)]

\* ir in irreps
IrIn(ir, irreps) == \E i \in 1..Len(irreps) : irreps[i].ir = ir

RECURSIVE SumSeq(_)
SumSeq(s) == IF s = <<>> THEN 0 ELSE Head(s) + SumSeq(Tail(s))

\* Irreps.dim
Dim(irreps) == SumSeq([i \in 1..Len(irreps) |-> irreps[i].mul * IrDim(irreps[i].ir)])

\* the sort key of a block
KeyLess(a, b) == a.l < b.l \/ (a.l = b.l /\ a.p < b.p)

\* Irreps.sort(): a stable sort by the irrep's key; p[k] is the (0-based) place
\* of block k in the sorted list
SortPerm(irreps) ==
    [k \in 1..Len(irreps) |->
        Cardinality({j \in 1..Len(irreps) :
            \/ KeyLess(irreps[j].ir, irreps[k].ir)
            \/ (irreps[j].ir = irreps[k].ir /\ j < k)})]

SortedIrreps(irreps) ==
    [n \in 1..Len(irreps) |->
        irreps[CHOOSE k \in 1..Len(irreps) : SortPerm(irreps)[k] = n - 1]]

(***************************************************************************)
(* _instructions_uvu                                                       *)
(***************************************************************************)
RECURSIVE Flatten(_)
Flatten(ss) == IF ss = <<>> THEN <<>> ELSE Head(ss) \o Flatten(Tail(ss))

\* the (i1, i2, ir_out) the three nested loops visit, in the order they visit them
LoopOrder(in1, in2) ==
    Flatten([i1 \in 1..Len(in1) |->
        Flatten([i2 \in 1..Len(in2) |->
            [j \in 1..Len(IrMul(in1[i1].ir, in2[i2].ir)) |->
                [i1 |-> i1 - 1, i2 |-> i2 - 1,
                 ir_out |-> IrMul(in1[i1].ir, in2[i2].ir)[j]]]])])

\* a slip: the multiplicity of the block of irreps_in2
AppendedBlockMul2(in1, in2, c) == Block(in2[c.i2 + 1].mul, c.ir_out)

\* the block one iteration appends to irreps_out: (mul, ir_out), mul that of
\* the block of irreps_in1
AppendedBlock(in1, in2, c) == Block(in1[c.i1 + 1].mul, c.ir_out)

\* the body of the innermost loop, run over the visits still to come
RECURSIVE LoopBody(_, _, _, _, _)
LoopBody(visits, in1, in2, out_list, acc) ==
    IF visits = <<>> THEN acc
    ELSE LET c == Head(visits)
             k == Len(acc.irreps_out)
         IN  IF IrIn(c.ir_out, out_list)
             THEN LoopBody(Tail(visits), in1, in2, out_list,
                    [irreps_out |-> Append(acc.irreps_out, AppendedBlock(in1, in2, c)),
                     instructions |-> Append(acc.instructions,
                        [i1 |-> c.i1, i2 |-> c.i2, i_out |-> k,
                         mode |-> "uvu", has_weight |-> TRUE])])
             ELSE LoopBody(Tail(visits), in1, in2, out_list, acc)

\* a slip: the assertion asks for a block, not for a dimension
ProducesSomethingLen(irreps_out) == Len(irreps_out) > 0

\* the condition of the assertion on the collected irreps_out
ProducesSomething(irreps_out) == Dim(irreps_out) > 0

\* a slip: the output index is left as appended
RewriteKept(p, ins) == ins

\* the output index an instruction gets once irreps_out is sorted
Rewrite(p, ins) == [ins EXCEPT !.i_out = p[ins.i_out + 1]]

_instructions_uvu(in1, in2, out_list) ==
    LET acc == LoopBody(LoopOrder(in1, in2), in1, in2, out_list,
                        [irreps_out |-> <<>>, instructions |-> <<>>])
        p   == SortPerm(acc.irreps_out)
    IN  IF ~ProducesSomething(acc.irreps_out)
        THEN [status |-> "AssertionError", irreps_out |-> <<>>, instructions |-> <<>>,
              unsorted |-> acc.irreps_out, appended |-> acc.instructions, p |-> <<>>]
        ELSE [status |-> "ok",
              irreps_out |-> SortedIrreps(acc.irreps_out),
              instructions |-> [n \in 1..Len(acc.instructions) |->
                                    Rewrite(p, acc.instructions[n])],
              unsorted |-> acc.irreps_out, appended |-> acc.instructions, p |-> p]

NotCalled == [status |-> "none"]

\* the sequences over S whose length is in Ls
SeqsOf(S, Ls) == UNION {[1..m -> S] : m \in Ls}

\* lengths of irreps_in2 and of ir_out_list
ShortLens == {0, 1, 2}

\* multiplicities of the blocks of irreps_in1
Muls1 == {0, 1}

\* multiplicities of the blocks of irreps_in2
Muls2 == {2}

\* The multiplicities of irreps_in2 play no part in the code; they are set
\* apart from those of irreps_in1 so that a block tells where its
\* multiplicity came from.
UvuInit ==
    /\ irreps_in1 \in SeqsOf({Block(m, ir) : m \in Muls1, ir \in Irs}, 0..MaxBlocks)
    /\ irreps_in2 \in SeqsOf({Block(m, ir) : m \in Muls2, ir \in Irs}, ShortLens)
    /\ ir_out_list \in SeqsOf({Block(1, ir) : ir \in Irs}, ShortLens)
    /\ uvu_ret = NotCalled
    /\ ctor_args = NotCalled /\ self = NotCalled
    /\ graph = NotCalled /\ call_ret = NotCalled
    /\ voxel = NotCalled /\ point = NotCalled

CallInstructionsUvu ==
    /\ uvu_ret = NotCalled
    /\ uvu_ret' = _instructions_uvu(irreps_in1, irreps_in2, ir_out_list)
    /\ UNCHANGED <<irreps_in1, irreps_in2, ir_out_list>>
    /\ UNCHANGED <<tr_vars, voxel, point>>

UvuNext == CallInstructionsUvu

SpecUvu == UvuInit /\ [][UvuNext]_vars

(***************************************************************************)
(* Transformer                                                             *)
(***************************************************************************)
\* a slip: any() in place of all()
HeadsDivideAny(irreps, num_heads) ==
    \E i \in 1..Len(irreps) : irreps[i].mul % num_heads = 0

\* all(mul % num_heads == 0 for mul, _ in irreps), num_heads > 0
HeadsDivide(irreps, num_heads) ==
    \A i \in 1..Len(irreps) : irreps[i].mul % num_heads = 0

\* Transformer.__init__: the module, or the exception raised.  mul % 0
\* raises ZeroDivisionError at the first block the generator reaches.
TransformerInit(args) ==
    LET checked == args.irreps_node_input
        status ==
            IF args.num_heads = 0
            THEN (IF Len(checked) > 0 THEN "ZeroDivisionError" ELSE "ok")
            ELSE (IF HeadsDivide(checked, args.num_heads)
                  THEN "ok" ELSE "AssertionError")
    IN  [status |-> status,
         irreps_node_input |-> args.irreps_node_input,
         irreps_node_output |-> args.irreps_node_output,
         irreps_edge_attr |-> args.irreps_edge_attr,
         num_heads |-> args.num_heads]

\* rows of width w, all zero
ZeroRow(w) == [j \in 1..w |-> 0]

AddRows(a, b) == [j \in 1..Len(a) |-> a[j] + b[j]]

\* index_add(indices, input, out_dim): every row of input is added to the
\* accumulator its index names, one row after the other
RECURSIVE IndexAddFrom(_, _, _, _)
IndexAddFrom(e, indices, input, acc) ==
    IF e > Len(indices) THEN acc
    ELSE IndexAddFrom(e + 1, indices, input,
            [acc EXCEPT ![indices[e] + 1] = AddRows(@, input[e])])

index_add(indices, input, out_dim, width) ==
    IndexAddFrom(1, indices, input, [n \in 1..out_dim |-> ZeroRow(width)])

edge_src(g) == [e \in 1..Len(g.edges) |-> g.edges[e].src]

\* a slip: the source index used as the destination
edge_dst_as_src(g) == [e \in 1..Len(g.edges) |-> g.edges[e].src]

edge_dst(g) == [e \in 1..Len(g.edges) |-> g.edges[e].dst]

\* exp[e][h] = edge_weight_cutoff[e] * exp(dot[e][h])
ExpOf(g, H) == [e \in 1..Len(g.edges) |->
                    [h \in 1..H |-> g.edges[e].cutoff * g.edges[e].expdot[h]]]

\* jnp.where(z == 0.0, 1.0, z)
WhereZeroOne(z) == [n \in 1..Len(z) |-> [h \in 1..Len(z[n]) |->
                        IF z[n][h] = 0 THEN 1 ELSE z[n][h]]]

\* a slip: the normaliser read at the source node
AlphaOfSrc(g, exp, z) ==
    [e \in 1..Len(exp) |-> [h \in 1..Len(exp[e]) |->
        <<exp[e][h], z[edge_src(g)[e] + 1][h]>>]]

\* alpha = exp / z[edge_dst], a fraction <<numerator, denominator>>
AlphaOf(g, exp, z) ==
    [e \in 1..Len(exp) |-> [h \in 1..Len(exp[e]) |->
        <<exp[e][h], z[edge_dst(g)[e] + 1][h]>>]]

\* the value of edge e that tp_v gives at every place of its output; the sum
\* of the values of a set of edges tells the set
EdgeValue(e) == 2 ^ (e - 1)

\* one block of edge_v of edge e, reshaped to [num_heads, mul // num_heads,
\* ir.dim], scaled by sqrt(relu(alpha)) of its head, and flattened: a value
\* scaled by a positive factor stays a value, one scaled by 0 is 0
HeadSplit(blk, H, alpha_e, e) ==
    LET per == (blk.mul \div H) * IrDim(blk.ir)
    IN  [j \in 1..(H * per) |->
            LET h == ((j - 1) \div per) + 1
            IN  IF alpha_e[h][1] * alpha_e[h][2] > 0 THEN EdgeValue(e) ELSE 0]

\* whether v.reshape(v.shape[0], num_heads, v.shape[1] // num_heads, v.shape[2])
\* keeps the number of elements
ReshapeFits(blk, H) == H * (blk.mul \div H) * IrDim(blk.ir) = blk.mul * IrDim(blk.ir)

\* Transformer.__call__ up to node_out
TransformerCall(slf, g) ==
    LET H    == slf.num_heads
        tp_k == _instructions_uvu(slf.irreps_node_input, slf.irreps_edge_attr,
                                  slf.irreps_node_input)
        exp  == ExpOf(g, H)
        z_sum == index_add(edge_dst(g), exp, g.n, H)
        z    == WhereZeroOne(z_sum)
        alpha == AlphaOf(g, exp, z)
        tp_v == _instructions_uvu(slf.irreps_node_input, slf.irreps_edge_attr,
                                  slf.irreps_node_output)
        edge_v == [e \in 1..Len(g.edges) |->
                    Flatten([b \in 1..Len(tp_v.irreps_out) |->
                        HeadSplit(tp_v.irreps_out[b], H, alpha[e], e)])]
        width == IF H = 0 THEN 0
                 ELSE SumSeq([b \in 1..Len(tp_v.irreps_out) |->
                        H * (tp_v.irreps_out[b].mul \div H) * IrDim(tp_v.irreps_out[b].ir)])
        failed(st) == [status |-> st, tp_k |-> tp_k, tp_v |-> tp_v, exp |-> <<>>,
                       z_sum |-> <<>>, z |-> <<>>, alpha |-> <<>>, edge_v |-> <<>>,
                       node_out |-> <<>>]
    IN  IF tp_k.status # "ok" THEN failed("AssertionError")
        ELSE IF tp_v.status # "ok" THEN failed("AssertionError")
        ELSE IF H = 0 THEN failed("ZeroDivisionError")
        ELSE IF \E b \in 1..Len(tp_v.irreps_out) : ~ReshapeFits(tp_v.irreps_out[b], H)
        THEN failed("ReshapeError")
        ELSE [status |-> "ok", tp_k |-> tp_k, tp_v |-> tp_v, exp |-> exp,
              z_sum |-> z_sum, z |-> z,
              alpha |-> alpha, edge_v |-> edge_v,
              node_out |-> index_add(edge_dst(g), edge_v, g.n, width)]

\* multiplicities of the blocks given to Transformer
TMuls == {1, 2}

\* exp(dot) of an edge, one value a head
ExpDots(H) == {[h \in 1..H |-> IF h = 1 THEN 1 ELSE 2],
               [h \in 1..H |-> IF h = 1 THEN 2 ELSE 1]}

\* edge_weight_cutoff of an edge; a weight below 0 lets the weights into a
\* node cancel
Cutoffs == {-1, 0, 1}

Edges(n, H) == [src : 0..(n - 1), dst : 0..(n - 1), cutoff : Cutoffs, expdot : ExpDots(H)]

\* the three irreps of the constructor vary, the edges carrying one irrep;
\* the graph is one of two edges into the same node
IrrepsVary ==
    /\ ctor_args \in
        [irreps_node_input : SeqsOf({Block(m, ir) : m \in TMuls, ir \in Irs}, ShortLens),
         irreps_node_output : SeqsOf({Block(1, ir) : ir \in Irs}, ShortLens),
         irreps_edge_attr : SeqsOf({Block(1, ir) : ir \in Irs}, {1}),
         num_heads : 0..MaxHeads]
    /\ graph = [n |-> 2,
                edges |-> <<[src |-> 0, dst |-> 1, cutoff |-> 1,
                             expdot |-> [h \in 1..ctor_args.num_heads |-> h]],
                            [src |-> 1, dst |-> 1, cutoff |-> 1,
                             expdot |-> [h \in 1..ctor_args.num_heads |-> 1]]>>]

\* the graph varies; the irreps are 2x0e + 2x1o on the nodes and 0e on the
\* edges, with two heads
GraphVaries ==
    /\ ctor_args =
        [irreps_node_input |-> <<Block(2, Irrep(0, 1)), Block(2, Irrep(1, -1))>>,
         irreps_node_output |-> <<Block(2, Irrep(0, 1)), Block(2, Irrep(1, -1))>>,
         irreps_edge_attr |-> <<Block(1, Irrep(0, 1))>>,
         num_heads |-> 2]
    /\ \E n \in 1..MaxNodes :
        graph \in [n : {n}, edges : SeqsOf(Edges(n, 2), 0..MaxEdges)]

Init ==
    /\ IrrepsVary \/ GraphVaries
    /\ self = NotCalled
    /\ call_ret = NotCalled
    /\ irreps_in1 = <<>> /\ irreps_in2 = <<>> /\ ir_out_list = <<>>
    /\ uvu_ret = NotCalled
    /\ voxel = NotCalled /\ point = NotCalled

Construct ==
    /\ self = NotCalled
    /\ self' = TransformerInit(ctor_args)
    /\ UNCHANGED <<ctor_args, graph, call_ret>>
    /\ UNCHANGED <<uvu_vars, voxel, point>>

Call ==
    /\ self.status = "ok"
    /\ call_ret = NotCalled
    /\ call_ret' = TransformerCall(self, graph)
    /\ UNCHANGED <<ctor_args, self, graph>>
    /\ UNCHANGED <<uvu_vars, voxel, point>>

Next == Construct \/ Call

Spec == Init /\ [][Next]_vars

(***************************************************************************)
(* examples/tetris_voxel.py: main()                                        *)
(***************************************************************************)
\* the shapes of tetris(): the rows of x and y
VoxelShapes == 8

\* range(500)
VoxelIterations == 500

\* a slip: the accuracy compared as a percentage
AccuracyIsHundred(correct) == correct = 100 * VoxelShapes

\* accuracy == 1.0, accuracy the mean over the shapes of "the row is right"
AccuracyIsOne(correct) == correct = VoxelShapes

\* model.init and opt.init: the initial params and opt_state are number 0,
\* those returned by the n-th update are number n
VoxelInit ==
    /\ voxel = [pc |-> "train", calls |-> 0, params |-> 0, opt_state |-> 0,
                received |-> <<>>, correct |-> 0]
    /\ irreps_in1 = <<>> /\ irreps_in2 = <<>> /\ ir_out_list = <<>>
    /\ uvu_ret = NotCalled
    /\ ctor_args = NotCalled /\ self = NotCalled
    /\ graph = NotCalled /\ call_ret = NotCalled
    /\ point = NotCalled

\* one pass of the loop: update(params, opt_state, x, y), rebinding what it
\* returns, then the test of the accuracy; correct is the number of rows of
\* pred that update found right
VoxelStep ==
    /\ voxel.pc = "train"
    /\ voxel.calls < VoxelIterations
    /\ \E correct \in 0..VoxelShapes :
        voxel' = [pc |-> IF AccuracyIsOne(correct) \/ voxel.calls + 1 = VoxelIterations
                         THEN "print" ELSE "train",
                  calls |-> voxel.calls + 1,
                  params |-> voxel.calls + 1,
                  opt_state |-> voxel.calls + 1,
                  received |-> <<voxel.params, voxel.opt_state>>,
                  correct |-> correct]
    /\ UNCHANGED <<uvu_vars, tr_vars, point>>

\* the prints after the loop
VoxelPrint ==
    /\ voxel.pc = "print"
    /\ voxel' = [voxel EXCEPT !.pc = "done"]
    /\ UNCHANGED <<uvu_vars, tr_vars, point>>

VoxelNext == VoxelStep \/ VoxelPrint

\* main() runs on: a pass of the loop that can be made is made
SpecVoxel == VoxelInit /\ [][VoxelNext]_vars /\ WF_vars(VoxelNext)

(***************************************************************************)
(* examples/tetris_point_jraph.py: tetris(), Layer, Model, train()         *)
(***************************************************************************)
\* pos of tetris(): the four points of each shape
TetrisPos ==
    << <<<<0, 0, 0>>, <<0, 0, 1>>, <<1, 0, 0>>, <<1, 1, 0>>>>,
       <<<<0, 0, 0>>, <<0, 0, 1>>, <<1, 0, 0>>, <<1, -1, 0>>>>,
       <<<<0, 0, 0>>, <<1, 0, 0>>, <<0, 1, 0>>, <<1, 1, 0>>>>,
       <<<<0, 0, 0>>, <<0, 0, 1>>, <<0, 0, 2>>, <<0, 0, 3>>>>,
       <<<<0, 0, 0>>, <<0, 0, 1>>, <<0, 1, 0>>, <<1, 0, 0>>>>,
       <<<<0, 0, 0>>, <<0, 0, 1>>, <<0, 0, 2>>, <<0, 1, 0>>>>,
       <<<<0, 0, 0>>, <<0, 0, 1>>, <<0, 0, 2>>, <<0, 1, 1>>>>,
       <<<<0, 0, 0>>, <<1, 0, 0>>, <<1, 1, 0>>, <<2, 1, 0>>>> >>

\* jraph.batch of the graphs of tetris(): one entry of n_node a shape, the
\* nodes of all shapes in one array
TetrisGraphs ==
    [n_node |-> [g \in 1..Len(TetrisPos) |-> Len(TetrisPos[g])],
     num_nodes |-> SumSeq([g \in 1..Len(TetrisPos) |-> Len(TetrisPos[g])])]

\* Irreps + Irreps
IrrepsCat(a, b) == a \o b

\* the irreps of e3nn.tensor_product(a, b): every block of a with every block
\* of b, one block for each irrep of their product
TensorProductIrreps(a, b) ==
    Flatten([i \in 1..Len(a) |->
        Flatten([j \in 1..Len(b) |->
            [k \in 1..Len(IrMul(a[i].ir, b[j].ir)) |->
                Block(a[i].mul * b[j].mul, IrMul(a[i].ir, b[j].ir)[k])]])])

\* the irreps of e3nn.spherical_harmonics(ls, vectors, ...) of vectors 1o
SphericalHarmonicsIrreps(ls) ==
    <<>> \o [i \in 1..Len(ls) |-> Block(1, Irrep(ls[i], IF ls[i] % 2 = 0 THEN 1 ELSE -1))]

\* the irreps a block list may hold, in the order of the sort key
RECURSIVE IrsUpTo(_)
IrsUpTo(l) == IF l < 0 THEN <<>> ELSE IrsUpTo(l - 1) \o <<Irrep(l, -1), Irrep(l, 1)>>

MaxDegree(irreps) ==
    IF irreps = <<>> THEN 0
    ELSE CHOOSE l \in {irreps[i].ir.l : i \in 1..Len(irreps)} :
            \A i \in 1..Len(irreps) : irreps[i].ir.l <= l

\* the multiplicity an irrep has in all of irreps
MulOf(ir, irreps) ==
    SumSeq([i \in 1..Len(irreps) |-> IF irreps[i].ir = ir THEN irreps[i].mul ELSE 0])

\* Irreps.regroup(): sorted, the blocks of one irrep merged, empty blocks dropped
Regroup(irreps) ==
    LET all == IrsUpTo(MaxDegree(irreps))
        kept == SelectSeq(all, LAMBDA ir : MulOf(ir, irreps) > 0)
    IN  <<>> \o [i \in 1..Len(kept) |-> Block(MulOf(kept[i], irreps), kept[i])]

IsScalar(b) == b.ir.l = 0

\* Irreps.filter(keep=...) with the irreps of another Irreps
FilterKeep(irreps, keep) == SelectSeq(irreps, LAMBDA b : IrIn(b.ir, keep))

\* Irreps.num_irreps
NumIrreps(irreps) == SumSeq([i \in 1..Len(irreps) |-> irreps[i].mul])

\* irreps.slice_by_mul[:n]
RECURSIVE TakeMul(_, _)
TakeMul(irreps, n) ==
    IF n <= 0 \/ irreps = <<>> THEN <<>>
    ELSE IF Head(irreps).mul <= n
         THEN <<Head(irreps)>> \o TakeMul(Tail(irreps), n - Head(irreps).mul)
         ELSE <<Block(n, Head(irreps).ir)>>

\* irreps.slice_by_mul[n:]
RECURSIVE DropMul(_, _)
DropMul(irreps, n) ==
    IF irreps = <<>> THEN <<>>
    ELSE IF n <= 0 THEN irreps
    ELSE IF Head(irreps).mul <= n THEN DropMul(Tail(irreps), n - Head(irreps).mul)
    ELSE <<Block(Head(irreps).mul - n, Head(irreps).ir)>> \o Tail(irreps)

\* the irreps of e3nn.flax.Linear(irreps_out)(x): the blocks of irreps_out
\* whose irrep the input holds
LinearIrreps(irreps_out, input) == FilterKeep(irreps_out, Regroup(input))

\* the irreps of e3nn.gate(x): the scalars that are not gates, then the gated
\* blocks; the last scalars, one for each gated irrep, are the gates.  Odd
\* gates would change the parity of what they gate: "odd gates" stands for it.
GateIrreps(x) ==
    LET scalars == SelectSeq(x, IsScalar)
        gated   == SelectSeq(x, LAMBDA b : ~IsScalar(b))
        extra   == NumIrreps(scalars) - NumIrreps(gated)
        gates   == DropMul(scalars, extra)
    IN  IF extra < 0 THEN [status |-> "ValueError", irreps |-> <<>>]
        ELSE IF \E i \in 1..Len(gates) : gates[i].ir.p = -1 /\ gates[i].mul > 0
        THEN [status |-> "odd gates", irreps |-> <<>>]
        ELSE [status |-> "ok", irreps |-> IrrepsCat(TakeMul(scalars, extra), gated)]

\* Layer.sh_lmax
sh_lmax == 3

\* Layer.__call__: the irreps of the nodes it returns, from those it is given
Layer(target_irreps, nodes) ==
    LET sh    == SphericalHarmonicsIrreps(<<>> \o [l \in 1..sh_lmax |-> l])
        edges == Regroup(IrrepsCat(nodes, TensorProductIrreps(nodes, sh)))
        irreps == IrrepsCat(target_irreps,
                    <<Block(NumIrreps(SelectSeq(target_irreps, LAMBDA b : ~IsScalar(b))),
                            Irrep(0, 1))>>)
        down  == LinearIrreps(irreps, edges)
        g     == GateIrreps(down)
    IN  IF g.status # "ok" THEN g
        ELSE [status |-> "ok", irreps |-> LinearIrreps(target_irreps, g.irreps)]

\* "32x0e + 32x0o + 8x1e + 8x1o + 8x2e + 8x2o"
HiddenIrreps ==
    <<Block(32, Irrep(0, 1)), Block(32, Irrep(0, -1)), Block(8, Irrep(1, 1)),
      Block(8, Irrep(1, -1)), Block(8, Irrep(2, 1)), Block(8, Irrep(2, -1))>>

\* "0o + 7x0e"
OutputIrreps == <<Block(1, Irrep(0, -1)), Block(7, Irrep(0, 1))>>

\* the target irreps of the three Layers of Model
Layer1Irreps == HiddenIrreps

\* a slip: hidden features without pseudovectors, "32x0e + 8x1o + 8x2e"
Layer2IrrepsPolar ==
    <<Block(32, Irrep(0, 1)), Block(8, Irrep(1, -1)), Block(8, Irrep(2, 1))>>

Layer2Irreps == HiddenIrreps

Layer3Irreps == OutputIrreps

\* a Layer applied to what the Layer before returned, if it returned
Then(r, target_irreps) == IF r.status # "ok" THEN r ELSE Layer(target_irreps, r.irreps)

\* the irreps of the nodes after the Layers of Model; the nodes it starts from
\* are jnp.ones((len(positions), 1)), one even scalar
ModelIrreps ==
    Then(Then(Then([status |-> "ok", irreps |-> <<Block(1, Irrep(0, 1))>>],
                   Layer1Irreps), Layer2Irreps), Layer3Irreps)

\* Model.__call__: graphs.nodes, an array with a row a node
Model(graphs) ==
    [status |-> ModelIrreps.status, irreps |-> ModelIrreps.irreps,
     shape |-> <<graphs.num_nodes, Dim(ModelIrreps.irreps)>>]

\* e3nn.scatter_sum(pred, nel=...): one row for each entry of nel
scatter_sum(x, nel) == [x EXCEPT !.shape = <<Len(nel), x.shape[2]>>]

\* loss_pred up to its two assertions
loss_pred(graphs) ==
    LET pred == scatter_sum(Model(graphs), graphs.n_node)
    IN  IF pred.status # "ok" THEN pred
        ELSE IF pred.irreps # OutputIrreps THEN [pred EXCEPT !.status = "AssertionError"]
        ELSE IF pred.shape # <<Len(graphs.n_node), 8>>
        THEN [pred EXCEPT !.status = "AssertionError"]
        ELSE pred

\* train(steps=1000)
steps == 1000

\* the values (accuracy_odd + accuracy_even) / 2 takes, in sixteenths
Accuracies == 0..16

PointInit ==
    /\ point = [pc |-> "compile", it |-> 0, calls |-> 0, graphs |-> TetrisGraphs,
                pred |-> NotCalled, accuracy |-> 0]
    /\ irreps_in1 = <<>> /\ irreps_in2 = <<>> /\ ir_out_list = <<>>
    /\ uvu_ret = NotCalled
    /\ ctor_args = NotCalled /\ self = NotCalled
    /\ graph = NotCalled /\ call_ret = NotCalled
    /\ voxel = NotCalled

\* update(params, opt_state, graphs): loss_pred and the accuracy
PointUpdate(pc_after, it_after) ==
    LET pred == loss_pred(point.graphs)
    IN  \E accuracy \in Accuracies :
            point' = [point EXCEPT
                        !.pc = IF pred.status = "ok" THEN pc_after ELSE "raised",
                        !.it = it_after,
                        !.calls = @ + 1,
                        !.pred = pred,
                        !.accuracy = accuracy]

\* the first update, made to compile
PointCompile ==
    /\ point.pc = "compile"
    /\ PointUpdate("loop", 0)
    /\ UNCHANGED <<uvu_vars, tr_vars, voxel>>

\* for it in range(1, steps + 1): no accuracy ends the loop
PointStep ==
    /\ point.pc = "loop"
    /\ point.it < steps
    /\ PointUpdate(IF point.it + 1 = steps THEN "plot" ELSE "loop", point.it + 1)
    /\ UNCHANGED <<uvu_vars, tr_vars, voxel>>

PointPlot ==
    /\ point.pc = "plot"
    /\ point' = [point EXCEPT !.pc = "done"]
    /\ UNCHANGED <<uvu_vars, tr_vars, voxel>>

PointNext == PointCompile \/ PointStep \/ PointPlot

SpecPoint == PointInit /\ [][PointNext]_vars

(***************************************************************************)
(* Properties of _instructions_uvu                                         *)
(***************************************************************************)
\* the selection rule of the product of two irreps
InProduct(ir, a, b) ==
    /\ ir.p = a.p * b.p
    /\ Abs(a.l - b.l) <= ir.l
    /\ ir.l <= a.l + b.l

\* the largest degree among the blocks of irreps
TopDegree(irreps) ==
    IF irreps = <<>> THEN 0
    ELSE CHOOSE l \in {irreps[i].ir.l : i \in 1..Len(irreps)} :
            \A i \in 1..Len(irreps) : irreps[i].ir.l <= l

\* the (i1, i2, ir_out) that are to get an instruction
Wanted(in1, in2, out_list) ==
    {t \in (0..(Len(in1) - 1)) \X (0..(Len(in2) - 1))
            \X {Irrep(l, p) : l \in 0..(TopDegree(in1) + TopDegree(in2)), p \in Parities} :
        /\ InProduct(t[3], in1[t[1] + 1].ir, in2[t[2] + 1].ir)
        /\ \E i \in 1..Len(out_list) : out_list[i].ir = t[3]}

\* the triple an instruction of the returned list stands for
TripleOf(ret, n) ==
    <<ret.instructions[n].i1, ret.instructions[n].i2,
      ret.irreps_out[ret.instructions[n].i_out + 1].ir>>

\* C2: when _instructions_uvu returns, the instructions are in one-to-one
\* correspondence with the triples (i1, i2, ir_out) whose ir_out is in the
\* product of blocks i1 and i2 and in ir_out_list; each has mode 'uvu' and
\* has_weight True and writes a block (mul of block i1, ir_out).
C2_OneInstructionPerTriple ==
    uvu_ret.status = "ok" =>
        LET N == Len(uvu_ret.instructions)
            W == Wanted(irreps_in1, irreps_in2, ir_out_list)
        IN  /\ \A t \in W :
                Cardinality({n \in 1..N : TripleOf(uvu_ret, n) = t}) = 1
            /\ \A n \in 1..N :
                LET ins == uvu_ret.instructions[n]
                IN  /\ TripleOf(uvu_ret, n) \in W
                    /\ ins.mode = "uvu"
                    /\ ins.has_weight = TRUE
                    /\ ins.i_out \in 0..(Len(uvu_ret.irreps_out) - 1)
                    /\ uvu_ret.irreps_out[ins.i_out + 1].mul = irreps_in1[ins.i1 + 1].mul

\* two blocks of irreps_in1 with different multiplicities both produce output
C2_Witness ==
    /\ uvu_ret.status = "ok"
    /\ Len(uvu_ret.instructions) >= 3
    /\ \E n, m \in 1..Len(uvu_ret.instructions) :
        /\ uvu_ret.instructions[n].i1 # uvu_ret.instructions[m].i1
        /\ uvu_ret.irreps_out[uvu_ret.instructions[n].i_out + 1].mul
            # uvu_ret.irreps_out[uvu_ret.instructions[m].i_out + 1].mul
    /\ \E n \in 1..Len(uvu_ret.instructions) : uvu_ret.instructions[n].i2 = 1

RECURSIVE SumOver(_, _)
SumOver(S, f) ==
    IF S = {} THEN 0
    ELSE LET x == CHOOSE y \in S : TRUE IN f[x] + SumOver(S \ {x}, f)

\* the total dimension of the blocks the wanted triples stand for
WantedDim(in1, in2, out_list) ==
    LET W == Wanted(in1, in2, out_list)
    IN  SumOver(W, [t \in W |-> in1[t[1] + 1].mul * (2 * t[3].l + 1)])

\* C3: _instructions_uvu fails with the assertion error whenever the
\* collected blocks have total dimension 0, in particular when no irrep of a
\* product is in ir_out_list; when it returns, irreps_out has dimension > 0
\* and the instruction list is not empty.
C3_AssertionIffNothingProduced ==
    uvu_ret # NotCalled =>
        /\ (WantedDim(irreps_in1, irreps_in2, ir_out_list) = 0
                => uvu_ret.status = "AssertionError")
        /\ (Wanted(irreps_in1, irreps_in2, ir_out_list) = {}
                => uvu_ret.status = "AssertionError")
        /\ (uvu_ret.status = "ok" =>
                /\ Dim(uvu_ret.irreps_out) > 0
                /\ Len(uvu_ret.instructions) > 0)
        /\ uvu_ret.status \in {"ok", "AssertionError"}

\* the assertion fails although blocks were collected: all have multiplicity 0
C3_Witness ==
    /\ uvu_ret.status = "AssertionError"
    /\ Wanted(irreps_in1, irreps_in2, ir_out_list) # {}

\* C7: after the sort, the rewritten output index of every instruction
\* names a block of the sorted irreps_out equal to the block the instruction
\* appended; the output indices are pairwise distinct and cover the blocks
\* of the sorted irreps_out; i1, i2 are unchanged; the sorted irreps_out is in
\* non-decreasing order of the key (degree, parity).
C7_SortKeepsInstructionsAligned ==
    uvu_ret.status = "ok" =>
        LET N   == Len(uvu_ret.instructions)
            out == uvu_ret.irreps_out
        IN  /\ Len(uvu_ret.appended) = N
            /\ Len(out) = N
            /\ \A n \in 1..N :
                LET ins == uvu_ret.instructions[n]
                    old == uvu_ret.appended[n]
                IN  /\ ins.i_out \in 0..(N - 1)
                    /\ out[ins.i_out + 1] = uvu_ret.unsorted[old.i_out + 1]
                    /\ ins.i1 = old.i1
                    /\ ins.i2 = old.i2
            /\ \A n, m \in 1..N :
                n # m => uvu_ret.instructions[n].i_out # uvu_ret.instructions[m].i_out
            /\ {uvu_ret.instructions[n].i_out : n \in 1..N} = 0..(N - 1)
            /\ \A a, b \in 1..N : a < b => ~KeyLess(out[b].ir, out[a].ir)

\* the sort moves a block: some instruction's output index is rewritten
C7_Witness ==
    /\ uvu_ret.status = "ok"
    /\ \E n \in 1..Len(uvu_ret.instructions) :
        uvu_ret.instructions[n].i_out # uvu_ret.appended[n].i_out
    /\ \E a, b \in 1..Len(uvu_ret.unsorted) :
        a < b /\ uvu_ret.unsorted[a].ir = uvu_ret.unsorted[b].ir

(***************************************************************************)
(* Properties of Transformer                                               *)
(***************************************************************************)
\* d divides m: m is a multiple of d
Divides(d, m) == \E k \in 0..m : m = k * d

AllDivided(args) ==
    \A i \in 1..Len(args.irreps_node_input) :
        Divides(args.num_heads, args.irreps_node_input[i].mul)

\* C1: construction succeeds if and only if num_heads divides the
\* multiplicity of every block of irreps_node_input, and otherwise fails
\* with the assertion error, no layer being produced.
C1_AsStated ==
    self # NotCalled =>
        /\ (self.status = "ok") <=> AllDivided(ctor_args)
        /\ (self.status # "ok" => self.status = "AssertionError" /\ call_ret = NotCalled)

\* What the constructor does: for num_heads other than 0 it succeeds if and
\* only if num_heads divides every multiplicity of irreps_node_input and
\* otherwise fails with the assertion error; for num_heads = 0 it raises
\* ZeroDivisionError when irreps_node_input has a block and succeeds when it
\* has none.  A failed construction produces no layer to call.
ConstructOutcome ==
    self # NotCalled =>
        /\ ctor_args.num_heads # 0 =>
            /\ (self.status = "ok") <=> AllDivided(ctor_args)
            /\ (self.status # "ok" => self.status = "AssertionError")
        /\ ctor_args.num_heads = 0 =>
            self.status = IF Len(ctor_args.irreps_node_input) = 0
                          THEN "ok" ELSE "ZeroDivisionError"
        /\ (self.status # "ok" => call_ret = NotCalled)

\* the assertion fails although num_heads divides one of the multiplicities
AssertionFailsOnOneBlock ==
    /\ self # NotCalled
    /\ self.status = "AssertionError"
    /\ ctor_args.num_heads = 2
    /\ \E i, j \in 1..Len(ctor_args.irreps_node_input) :
        /\ ctor_args.irreps_node_input[i].mul = 2
        /\ ctor_args.irreps_node_input[j].mul = 1

\* the edges into node n (0-based), as places of the edge list
EdgesInto(n) == {e \in 1..Len(graph.edges) : graph.edges[e].dst = n}

\* a/b + c/d
FracAdd(x, y) == <<x[1] * y[2] + y[1] * x[2], x[2] * y[2]>>

RECURSIVE FracSum(_, _)
FracSum(S, f) ==
    IF S = {} THEN <<0, 1>>
    ELSE LET x == CHOOSE y \in S : TRUE IN FracAdd(f[x], FracSum(S \ {x}, f))

\* C4: the attention weights are normalised per destination node: for every
\* node n and head h whose edges' exp[e, h] (cutoff times exp of the score)
\* do not sum to 0, the alpha[e, h] = exp[e, h] / z[edge_dst[e], h] over the
\* edges into n sum to 1.
C4_AlphaSumsToOne ==
    call_ret.status = "ok" =>
        LET E == 1..Len(graph.edges)
            x == [e \in E |-> [h \in 1..self.num_heads |->
                    graph.edges[e].cutoff * graph.edges[e].expdot[h]]]
        IN  /\ \A e \in E : \A h \in 1..self.num_heads :
                call_ret.alpha[e][h] = <<x[e][h], call_ret.z[graph.edges[e].dst + 1][h]>>
            /\ \A n \in 0..(graph.n - 1) : \A h \in 1..self.num_heads :
                SumOver(EdgesInto(n), [e \in E |-> x[e][h]]) # 0 =>
                    LET s == FracSum(EdgesInto(n), [e \in E |-> call_ret.alpha[e][h]])
                    IN  s[2] # 0 /\ s[1] = s[2]

\* two edges with different weights into one node, and a node whose weights
\* sum to 0
C4_Witness ==
    /\ call_ret.status = "ok"
    /\ \E n \in 0..(graph.n - 1) : \E e1, e2 \in EdgesInto(n) :
        /\ e1 # e2
        /\ call_ret.exp[e1][1] = 1 /\ call_ret.exp[e2][1] = 2
        /\ call_ret.exp[e1][2] = 2
    /\ \E n \in 0..(graph.n - 1) : call_ret.z_sum[n + 1][1] = 0

\* C5: the aggregation by index_add(edge_dst, values, len(node_f)) gives one
\* row a node, row n the sum of the values of the edges whose edge_dst is n
\* (all zero when there is none), so that every edge is counted at one node.
C5_RowIsSumOfIncomingEdges ==
    call_ret.status = "ok" =>
        LET E == 1..Len(graph.edges)
            W == Dim(call_ret.tp_v.irreps_out)
        IN  /\ Len(call_ret.z_sum) = graph.n
            /\ Len(call_ret.node_out) = graph.n
            /\ \A n \in 0..(graph.n - 1) :
                /\ \A h \in 1..self.num_heads :
                    call_ret.z_sum[n + 1][h]
                        = SumOver(EdgesInto(n), [e \in E |-> call_ret.exp[e][h]])
                /\ Len(call_ret.node_out[n + 1]) = W
                /\ \A j \in 1..W :
                    call_ret.node_out[n + 1][j]
                        = SumOver(EdgesInto(n), [e \in E |-> call_ret.edge_v[e][j]])
            /\ \A j \in 1..W :
                SumOver(0..(graph.n - 1), [n \in 0..(graph.n - 1) |-> call_ret.node_out[n + 1][j]])
                    = SumOver(E, [e \in E |-> call_ret.edge_v[e][j]])

\* a node with no edge into it beside a node with two, whose values add up
C5_Witness ==
    /\ call_ret.status = "ok"
    /\ \E n \in 0..(graph.n - 1) :
        /\ EdgesInto(n) = {}
        /\ \A j \in 1..Len(call_ret.node_out[n + 1]) : call_ret.node_out[n + 1][j] = 0
    /\ \E n \in 0..(graph.n - 1) :
        /\ Cardinality(EdgesInto(n)) = 2
        /\ call_ret.node_out[n + 1][1] = 3
    /\ \E e \in 1..Len(graph.edges) : graph.edges[e].src # graph.edges[e].dst

\* C9: for a constructed Transformer the split of the value messages into
\* heads is exact: every block of tp_v.irreps_out has the multiplicity of a
\* block of irreps_node_input, a multiple of num_heads, so that
\* num_heads * (mul // num_heads) = mul, the reshape never fails, and every
\* edge's concatenated vector is as long as the dimension of tp_v.irreps_out.
C9_HeadSplitIsExact ==
    call_ret # NotCalled =>
        /\ call_ret.status \in {"ok", "AssertionError"}
        /\ call_ret.status = "ok" =>
            /\ \A b \in 1..Len(call_ret.tp_v.irreps_out) :
                LET mul == call_ret.tp_v.irreps_out[b].mul
                IN  /\ \E i \in 1..Len(self.irreps_node_input) :
                        self.irreps_node_input[i].mul = mul
                    /\ mul % self.num_heads = 0
                    /\ self.num_heads * (mul \div self.num_heads) = mul
            /\ \A e \in 1..Len(graph.edges) :
                Len(call_ret.edge_v[e])
                    = SumSeq([b \in 1..Len(call_ret.tp_v.irreps_out) |->
                        call_ret.tp_v.irreps_out[b].mul
                            * (2 * call_ret.tp_v.irreps_out[b].ir.l + 1)])

\* two heads split blocks of degree 0 and of degree 1
C9_Witness ==
    /\ call_ret.status = "ok"
    /\ self.num_heads = 2
    /\ Len(graph.edges) > 0
    /\ \E a, b \in 1..Len(call_ret.tp_v.irreps_out) :
        /\ call_ret.tp_v.irreps_out[a].ir.l = 0
        /\ call_ret.tp_v.irreps_out[b].ir.l = 1
    /\ Len(self.irreps_node_input) = 2

(***************************************************************************)
(* Properties of the voxel example                                         *)
(***************************************************************************)
\* C8: the training loop ends after at least 1 and at most 500 calls of
\* update; it stops right after the first update whose accuracy is 1.0, so
\* that no update follows one that reported 1.0; every update receives the
\* params and opt_state the previous one returned, the first the initial
\* ones.
C8_LoopStopsAtFullAccuracy ==
    /\ <>(voxel.pc = "done")
    /\ [](voxel.pc \in {"print", "done"} =>
            /\ voxel.calls >= 1
            /\ voxel.calls <= 500
            /\ (voxel.calls < 500 => voxel.correct = 8))
    /\ []((voxel.calls >= 1 /\ voxel.correct = 8) => voxel.pc \in {"print", "done"})
    /\ [][voxel.correct = 8 /\ voxel.calls >= 1 => voxel'.calls = voxel.calls]_vars
    /\ [][voxel'.calls # voxel.calls =>
            /\ voxel'.calls = voxel.calls + 1
            /\ voxel'.received = <<voxel.calls, voxel.calls>>
            /\ voxel'.received = <<voxel.params, voxel.opt_state>>]_vars

\* the loop was left by the break, before the 500 passes were made
C8_Witness ==
    /\ voxel # NotCalled
    /\ voxel.pc = "done"
    /\ voxel.calls = 3
    /\ voxel.correct = 8
    /\ voxel.received = <<2, 2>>

(***************************************************************************)
(* Properties of the point-cloud example                                   *)
(***************************************************************************)
\* C6: the two assertions of loss_pred hold at every call train() makes:
\* the prediction has irreps "0o + 7x0e" and shape (number of graphs, 8),
\* which is (8, 8).
C6_AssertionsOfLossPredHold ==
    point # NotCalled =>
        /\ point.pc # "raised"
        /\ point.calls > 0 =>
            /\ point.pred.status = "ok"
            /\ point.pred.irreps = <<[mul |-> 1, ir |-> [l |-> 0, p |-> -1]],
                                     [mul |-> 7, ir |-> [l |-> 0, p |-> 1]]>>
            /\ point.pred.shape = <<8, 8>>

\* the loop has gone on after an update of accuracy 1
C6_Witness ==
    /\ point # NotCalled
    /\ point.it = 3
    /\ point.calls = 4
    /\ point.accuracy = 16
    /\ point.pred.shape = <<8, 8>>

====
